---- MODULE Spec2Model ----
(***************************************************************************)
(* A model of gaphor's metamodel code generator, gaphor/codegen/coder.py.  *)
(*                                                                         *)
(* The state is the input of one run of main() (the element graph of the  *)
(* model, the supermodels and the override table, as left by load_model)   *)
(* together with the position of the generator coder() and the lines that  *)
(* main() has printed to the output sink so far.                           *)
(***************************************************************************)
EXTENDS Naturals, Sequences, FiniteSets, TLC

VARIABLES
    E,                 \* element graph: class id -> class element (all factories)
    model,             \* ids of the main factory, in select() order
    super_models,      \* list of [lang, known, ids]
    overrides,         \* [header, keys]
    pc,                \* position of coder(): "order","declare","operations",
                       \*   "associations","subsets","done","failed"
    sel,               \* position of the selecting generator in model
    stack,             \* call stack of order(): frames [c, rest]
    seen_classes,      \* order_classes' visited set
    classes,           \* list(order_classes(...)) as built so far
    idx,               \* position of the running for-loop in classes
    already_imported,  \* import lines already yielded
    out,               \* lines printed to the output sink by main()
    error              \* the exception that ended the run, "" while none

\* The run of the legacy generator, utils/command/gen_uml.py (generate()).
VARIABLES
    legacy             \* [G, order, ov, pc, i, stack, written, out, error]

\* The run of resolve_attribute_type_values over one element factory.
VARIABLES
    factory            \* [classes, stored, props, pc, i, error]

\* One call of attribute(c, name, super_models).
VARIABLES
    lookup             \* [G, sms, c, name, pc, result]

coder_vars == << E, model, super_models, overrides, pc, sel, stack, seen_classes,
                 classes, idx, already_imported, out, error >>

\* The state of the programs other than coder().
others == << legacy, factory, lookup >>

vars == << coder_vars, others >>

input == << E, model, super_models, overrides >>

-----------------------------------------------------------------------------
(* Bounds of the model. *)

\* Number of classes of the inheritance-structure inputs.
NumClasses == 3
\* Most generalization edges of an inheritance-structure input.
MaxEdges == 3
\* The interpreter's recursion limit (sys.getrecursionlimit()), scaled down:
\* larger than the depth of every acyclic input.
RecursionLimit == 6

-----------------------------------------------------------------------------
(* Values. *)

\* Python's None for a string-valued field.
None == "None"
\* Python's None for a class-valued field.
NoClass == 0
\* A class name is the sequence of its parts, so that endswith and startswith
\* are computed: "~" marks a leading tilde, "Kind"/"Sort" a trailing suffix.
NoName == << >>

\* The package tree of every input: 1 is a top-level package, 2 a Profile
\* below it, 3 a package inside the profile.
Packages ==
    << [isProfile |-> FALSE, owningPackage |-> 0],
       [isProfile |-> TRUE,  owningPackage |-> 1],
       [isProfile |-> FALSE, owningPackage |-> 2] >>

\* Total orders that sorted() uses: rank of an attribute or operation name
\* (a.name or "") and of a class name, by Python string comparison.
AttrNameOrder == << "", "baseClass", "op", "u", "v", "w", "x", "y", "z" >>
ClassNameOrder ==
    << <<"A">>, <<"A", "Kind">>, <<"B">>, <<"C">>, <<"D">>, <<"S">>,
       <<"T">>, <<"~", "A">> >>

RECURSIVE IndexIn(_, _)
IndexIn(s, x) ==
    IF s = << >> THEN 1
    ELSE IF Head(s) = x THEN 1 ELSE 1 + IndexIn(Tail(s), x)

AttrKey(n) == IndexIn(AttrNameOrder, IF n = None THEN "" ELSE n)
ClassKey(n) == IndexIn(ClassNameOrder, n)

-----------------------------------------------------------------------------
(* Element constructors used to write down inputs. *)

NoOpposite == [name |-> None, class_ |-> FALSE, aggregation |-> "none"]

Attr0 ==
    [ name         |-> "x",
      typeValue    |-> None,
      type         |-> NoClass,
      isDerived    |-> FALSE,
      defaultValue |-> None,
      lowerValue   |-> None,
      upperValue   |-> None,
      aggregation  |-> "none",
      hasOpposite  |-> FALSE,
      opposite     |-> NoOpposite,
      association  |-> "none",        \* "none", "Association", "Extension"
      endClass     |-> NoClass,       \* a.association.ownedEnd.class_
      subsets      |-> << >>,         \* names of the "subsets" slot
      redefines    |-> None ]         \* value of the "redefines" slot

Class0 ==
    [ name           |-> <<"A">>,
      owningPackage  |-> 1,
      stereo         |-> FALSE,       \* stereotype SimpleAttribute applied
      generalization |-> << >>,       \* g.general for g in c.generalization
      ownedAttribute |-> << >>,
      ownedOperation |-> << >> ]

-----------------------------------------------------------------------------
(* The classifying predicates. *)

\* is_enumeration: c and c.name and c.name.endswith("Kind"/"Sort")
is_enumeration(G, c) ==
    /\ c # NoClass
    /\ G[c].name # NoName
    /\ G[c].name[Len(G[c].name)] \in {"Kind", "Sort"}

\* is_tilde_type: c and c.name and c.name.startswith("~")
is_tilde_type(G, c) ==
    /\ c # NoClass
    /\ G[c].name # NoName
    /\ G[c].name[1] = "~"

\* is_in_profile: the package chain of c reaches a Profile.
is_in_profile_direct(G, c) == Packages[G[c].owningPackage].isProfile
RECURSIVE in_profile_test(_)
in_profile_test(p) ==
    \/ Packages[p].isProfile
    \/ /\ Packages[p].owningPackage # 0
       /\ in_profile_test(Packages[p].owningPackage)

is_in_profile(G, c) == in_profile_test(G[c].owningPackage)

\* is_simple_type: "True", "False", or "RecursionError" when the recursion
\* through the generalizations reaches the interpreter's limit (d frames
\* left).  any() stops at the first true element.
RECURSIVE is_simple_type_at(_, _, _)
is_simple_type_at(G, c, d) ==
    IF d = 0 THEN "RecursionError"
    ELSE IF G[c].stereo THEN "True"
    ELSE LET gs == G[c].generalization
             RECURSIVE anyOf(_)
             anyOf(i) ==
                 IF i > Len(gs) THEN "False"
                 ELSE LET r == is_simple_type_at(G, gs[i], d - 1)
                      IN IF r = "False" THEN anyOf(i + 1) ELSE r
         IN anyOf(1)

is_simple_type(G, c) == is_simple_type_at(G, c, RecursionLimit)

\* is_extension_end: isinstance(a.association, UML.Extension)
is_extension_end(a) == a.association = "Extension"

\* bases: the generalization targets, then the class at the other end of
\* every association end named baseClass.
RECURSIVE base_class_ends(_)
base_class_ends(attrs) ==
    IF attrs = << >> THEN << >>
    ELSE LET a == Head(attrs)
         IN (IF a.association # "none" /\ a.name = "baseClass"
             THEN << a.endClass >> ELSE << >>) \o base_class_ends(Tail(attrs))

bases(G, c) == G[c].generalization \o base_class_ends(G[c].ownedAttribute)

\* The filter of coder(): "True", "False" or "RecursionError".
selected(G, c) ==
    IF is_enumeration(G, c) THEN "False"
    ELSE LET s == is_simple_type(G, c)
         IN IF s = "True" THEN "False"
            ELSE IF s = "RecursionError" THEN s
            ELSE IF is_in_profile(G, c) \/ is_tilde_type(G, c) THEN "False"
            ELSE "True"

-----------------------------------------------------------------------------
(* sorted(): a stable sort by a numeric key. *)

RECURSIVE InsertPair(_, _)
InsertPair(s, p) ==
    IF s = << >> THEN << p >>
    ELSE IF p.key < Head(s).key THEN << p >> \o s
    ELSE << Head(s) >> \o InsertPair(Tail(s), p)

RECURSIVE SortPairs(_)
SortPairs(s) ==
    IF s = << >> THEN << >>
    ELSE InsertPair(SortPairs(SubSeq(s, 1, Len(s) - 1)), s[Len(s)])

\* sorted(attrs, key=lambda a: a.name or "")
SortedByName(attrs) ==
    LET ps == SortPairs([i \in 1..Len(attrs) |->
                            [key |-> AttrKey(attrs[i].name), val |-> attrs[i]]])
    IN [i \in 1..Len(ps) |-> ps[i].val]

\* sorted(bases(class_), key=lambda c: c.name), as names
SortedBaseNames(G, c) ==
    LET bs == bases(G, c)
        ps == SortPairs([i \in 1..Len(bs) |->
                            [key |-> ClassKey(G[bs[i]].name), val |-> G[bs[i]].name]])
    IN [i \in 1..Len(ps) |-> ps[i].val]

-----------------------------------------------------------------------------
(* The override table (gaphor.codegen.override.Overrides, read through     *)
(* has_override, get_override and get_type) and the text lines.  A line is *)
(* a record of the parts its text is formatted from.                       *)

\* f"{class_.name}.{a.name}", and the key of a class c.name
MemberKey(cname, aname) == [c |-> cname, m |-> aname]
ClassLevel == "<class>"
ClassLevelKey(cname) == [c |-> cname, m |-> ClassLevel]

\* overrides and overrides.has_override(key)
has_override_never(ov, key) == FALSE
has_override_member(ov, key) == key.m # ClassLevel /\ key \in ov.keys
has_override(ov, key) == key \in ov.keys

\* overrides.get_override(key): the literal text stored for key
OverrideText(key) == [k |-> "override", key |-> key]
\* f"{a.name}: {overrides.get_type(full_name)}"
OverrideSlot(key) == [k |-> "slot_override", key |-> key]

HeaderLine == [k |-> "header"]
OverrideHeaderLine == [k |-> "override_header"]
BlankLine == [k |-> "blank"]
PassLine(cname) == [k |-> "pass", c |-> cname]
ImportLine(module, name) == [k |-> "import", module |-> module, name |-> name]

\* The kinds of lines that default generation writes for a member.
DefaultKinds ==
    {"attribute", "enumeration", "relation", "association", "derivedunion",
     "redefine"}

Ok(lines) == [lines |-> lines, err |-> ""]
Raise(e) == [lines |-> << >>, err |-> e]

-----------------------------------------------------------------------------
(* in_super_model and attribute. *)

\* in_super_model: the first class named name, in the order of the
\* supermodels and of each factory, that is neither in a profile nor an
\* enumeration; lookup_element must know it (the assert).
NoSuper == [found |-> FALSE, err |-> "", lang |-> None, cls |-> NoClass]

RECURSIVE super_scan(_, _, _, _, _)
super_scan(G, name, sms, m, i) ==
    IF m > Len(sms) THEN NoSuper
    ELSE IF i > Len(sms[m].ids) THEN super_scan(G, name, sms, m + 1, 1)
    ELSE IF /\ G[sms[m].ids[i]].name = name
            /\ ~ (is_in_profile(G, sms[m].ids[i]) \/ is_enumeration(G, sms[m].ids[i]))
    THEN IF name \in sms[m].known
         THEN [found |-> TRUE, err |-> "", lang |-> sms[m].lang,
               cls |-> sms[m].ids[i]]
         ELSE [NoSuper EXCEPT !.err = "AssertionError"]
    ELSE super_scan(G, name, sms, m, i + 1)

in_super_model(G, name, sms) == super_scan(G, name, sms, 1, 1)

NotFound == [et |-> None, owner |-> NoClass, a |-> Attr0, found |-> FALSE, err |-> ""]

\* The first attribute of attrs named name, from position i on (0: none).
RECURSIVE own_attribute(_, _, _)
own_attribute(attrs, name, i) ==
    IF i > Len(attrs) THEN 0
    ELSE IF attrs[i].name = name THEN i
    ELSE own_attribute(attrs, name, i + 1)

\* attribute(c, name, super_models): own attributes, then the bases in
\* order, then the same-named class of a supermodel.  d frames are left.
RECURSIVE attribute_at(_, _, _, _, _)
RECURSIVE attribute_bases(_, _, _, _, _, _)

\* for base in bases(c): ... if a: return element_type, a
attribute_first(r, G, bs, i, name, sms, d) ==
    IF r.err # "" \/ r.found THEN r
    ELSE attribute_bases(G, bs, i + 1, name, sms, d)

attribute_bases(G, bs, i, name, sms, d) ==
    IF i > Len(bs) THEN NotFound
    ELSE attribute_first(attribute_at(G, bs[i], name, sms, d - 1),
                         G, bs, i, name, sms, d)

\* _, a = attribute(super_class, ...); return element_type, a
attribute_untyped(r, lang) == r
attribute_typed(r, lang) == IF r.err # "" THEN r ELSE [r EXCEPT !.et = lang]

\* element_type, super_class = in_super_model(c.name, super_models)
attribute_super(s, G, c, name, sms, d) ==
    IF s.err # "" THEN [NotFound EXCEPT !.err = s.err]
    ELSE IF s.found /\ s.cls # c
    THEN attribute_typed(attribute_at(G, s.cls, name, sms, d - 1), s.lang)
    ELSE NotFound

attribute_rest(b, G, c, name, sms, d) ==
    IF b.err # "" \/ b.found THEN b
    ELSE attribute_super(in_super_model(G, G[c].name, sms), G, c, name, sms, d)

\* for a in c.ownedAttribute: if a.name == name: return None, a
attribute_own(i, G, c, name, sms, d) ==
    IF i # 0
    THEN [et |-> None, owner |-> c, a |-> G[c].ownedAttribute[i],
          found |-> TRUE, err |-> ""]
    ELSE attribute_rest(attribute_bases(G, bases(G, c), 1, name, sms, d),
                        G, c, name, sms, d)

attribute_at(G, c, name, sms, d) ==
    IF d = 0 THEN [NotFound EXCEPT !.err = "RecursionError"]
    ELSE attribute_own(own_attribute(G[c].ownedAttribute, name, 1),
                       G, c, name, sms, d)

attribute(G, c, name, sms) == attribute_at(G, c, name, sms, RecursionLimit)

-----------------------------------------------------------------------------
(* The emitters. *)

\* class_declaration
class_declaration(G, c) ==
    [k |-> "class", name |-> G[c].name, bases |-> SortedBaseNames(G, c)]

\* default_value: title-cased for int, quoted for str
default_value(a) ==
    IF a.defaultValue = None THEN Ok(<< None >>)
    ELSE IF a.typeValue = "int" THEN Ok(<< <<"title", a.defaultValue>> >>)
    ELSE IF a.typeValue = "str" THEN Ok(<< <<"quoted", a.defaultValue>> >>)
    ELSE Raise("ValueError: unknown default value type")

\* is_reassignment: an attribute of that name exists on some ancestor.
\* "True", "False", or "RecursionError" when test() nests deeper than the
\* interpreter allows.
RECURSIVE reassignment_test(_, _, _, _)
RECURSIVE reassignment_bases(_, _, _, _, _)
reassignment_next(r, G, bs, i, name, d) ==
    IF r = "False" THEN reassignment_bases(G, bs, i + 1, name, d) ELSE r

\* any(test(base) for base in bs[i..])
reassignment_bases(G, bs, i, name, d) ==
    IF i > Len(bs) THEN "False"
    ELSE reassignment_next(reassignment_test(G, bs[i], name, d), G, bs, i, name, d)

reassignment_test(G, c, name, d) ==
    IF d > RecursionLimit THEN "RecursionError"
    ELSE IF \E i \in 1..Len(G[c].ownedAttribute) : G[c].ownedAttribute[i].name = name
    THEN "True"
    ELSE reassignment_bases(G, bases(G, c), 1, name, d + 1)

is_reassignment(G, c, a) == reassignment_bases(G, bases(G, c), 1, a.name, 1)

\* f"{a.name}: relation_{mult}[{a.type.name}]{comment}"
relation_slot(r, G, c, a) ==
    IF r = "RecursionError" THEN Raise("RecursionError")
    ELSE Ok(<< [k |-> "relation", c |-> G[c].name, a |-> a.name,
                mult |-> IF a.upperValue = "1" THEN "one" ELSE "many",
                type |-> G[a.type].name,
                ignore |-> (r = "True")] >>)

\* The slots of an attribute that is neither an extension end, overridden
\* nor a derived attribute without type.
typed_variable(G, c, a) ==
    IF a.typeValue # None
    THEN LET dv == default_value(a)
         IN IF dv.err # "" THEN dv
            ELSE Ok(<< [k |-> "attribute", c |-> G[c].name, a |-> a.name,
                        typeValue |-> a.typeValue, default |-> dv.lines[1]] >>)
    ELSE IF is_enumeration(G, a.type)
    THEN LET lits == G[a.type].ownedAttribute
         IN IF lits = << >> THEN Raise("IndexError")
            ELSE Ok(<< [k |-> "enumeration", c |-> G[c].name, a |-> a.name,
                        values |-> [i \in 1..Len(lits) |-> lits[i].name],
                        default |-> lits[1].name] >>)
    ELSE IF a.type # NoClass
    THEN relation_slot(is_reassignment(G, c, a), G, c, a)
    ELSE Raise("ValueError: can not be written")

\* One attribute of variables(): the slot it yields, nothing, or a raise.
variable_strict(G, ov, c, a) ==
    IF is_extension_end(a) THEN Ok(<< >>)
    ELSE IF has_override(ov, MemberKey(G[c].name, a.name))
    THEN Ok(<< OverrideSlot(MemberKey(G[c].name, a.name)) >>)
    ELSE typed_variable(G, c, a)
variable(G, ov, c, a) ==
    IF is_extension_end(a) THEN Ok(<< >>)
    ELSE IF has_override(ov, MemberKey(G[c].name, a.name))
    THEN Ok(<< OverrideSlot(MemberKey(G[c].name, a.name)) >>)
    ELSE IF a.isDerived /\ a.type = NoClass THEN Ok(<< >>)
    ELSE typed_variable(G, c, a)

\* One operation of variables(): a slot only when overridden.
operation_slot(G, ov, c, o) ==
    LET key == MemberKey(G[c].name, o)
    IN IF has_override(ov, key) THEN << OverrideSlot(key) >> ELSE << >>

\* Runs an emitter over a sequence: the lines yielded until one raises.
RECURSIVE Collect(_, _)
Collect(rs, i) ==
    IF i > Len(rs) THEN Ok(<< >>)
    ELSE IF rs[i].err # "" THEN rs[i]
    ELSE LET t == Collect(rs, i + 1)
         IN [lines |-> rs[i].lines \o t.lines, err |-> t.err]

\* variables(class_, overrides)
variables(G, ov, c) ==
    LET attrs == SortedByName(G[c].ownedAttribute)
        ops == SortedByName([i \in 1..Len(G[c].ownedOperation) |->
                                [name |-> G[c].ownedOperation[i]]])
    IN Collect([i \in 1..(Len(attrs) + Len(ops)) |->
                   IF i <= Len(attrs) THEN variable(G, ov, c, attrs[i])
                   ELSE Ok(operation_slot(G, ov, c, ops[i - Len(attrs)].name))], 1)

\* operations(c, overrides)
operations(G, ov, c) ==
    LET ops == SortedByName([i \in 1..Len(G[c].ownedOperation) |->
                                [name |-> G[c].ownedOperation[i]]])
        RECURSIVE go(_)
        go(i) ==
            IF i > Len(ops) THEN << >>
            ELSE LET key == MemberKey(G[c].name, ops[i].name)
                 IN (IF has_override(ov, key) THEN << OverrideText(key) >> ELSE << >>)
                    \o go(i + 1)
    IN go(1)

lower(a) == IF a.lowerValue \in {None, "0"} THEN None ELSE a.lowerValue
upper(a) == IF a.upperValue \in {None, "*"} THEN None ELSE a.upperValue
composite_of_opposite(a) == a.hasOpposite /\ a.opposite.aggregation = "composite"
composite(a) == a.aggregation = "composite"
opposite(a) ==
    IF a.hasOpposite /\ a.opposite.name # None /\ a.opposite.class_
    THEN a.opposite.name ELSE None

\* Is a skipped by the association and subset passes?  "RecursionError"
\* when is_simple_type(a.type) does not return.
no_target(G, a) ==
    IF a.type = NoClass THEN "True"
    ELSE LET s == is_simple_type(G, a.type)
         IN IF s # "False" THEN s
            ELSE IF is_enumeration(G, a.type) \/ is_extension_end(a)
            THEN "True" ELSE "False"

\* One attribute of associations(): [lines, redef, err]
association_line(G, c, a) ==
    [k |-> "association", c |-> G[c].name, a |-> a.name,
     type |-> G[a.type].name, lower |-> lower(a), upper |-> upper(a),
     composite |-> composite(a), opposite |-> opposite(a)]

association_step(G, ov, c, a) ==
    LET cn == G[c].name
        key == MemberKey(cn, a.name)
        nt == no_target(G, a)
        res(ls, rs, e) == [lines |-> ls, redef |-> rs, err |-> e]
    IN IF has_override(ov, key) THEN res(<< OverrideText(key) >>, << >>, "")
       ELSE IF nt = "RecursionError" THEN res(<< >>, << >>, nt)
       ELSE IF nt = "True" THEN res(<< >>, << >>, "")
       ELSE IF a.redefines # None
       THEN res(<< >>, << [k |-> "redefine", c |-> cn, a |-> a.name,
                           type |-> G[a.type].name,
                           redefines |-> a.redefines] >>, "")
       ELSE IF a.isDerived
       THEN res(<< [k |-> "derivedunion", c |-> cn, a |-> a.name,
                    type |-> G[a.type].name, lower |-> lower(a),
                    upper |-> upper(a)] >>, << >>, "")
       ELSE IF a.name = None
       THEN res(<< >>, << >>, "ValueError: unnamed attribute")
       ELSE res(<< association_line(G, c, a) >>, << >>, "")

\* associations(c, overrides): the lines yielded, the redefinitions last;
\* a raise loses the queued redefinitions.
associations_in_place(G, ov, c) ==
    LET attrs == G[c].ownedAttribute
        RECURSIVE go(_)
        go(i) ==
            IF i > Len(attrs) THEN Ok(<< >>)
            ELSE LET r == association_step(G, ov, c, attrs[i])
                 IN IF r.err # "" THEN Raise(r.err)
                    ELSE LET t == go(i + 1)
                         IN [lines |-> r.lines \o r.redef \o t.lines, err |-> t.err]
    IN go(1)
associations(G, ov, c) ==
    LET attrs == G[c].ownedAttribute
        RECURSIVE go(_, _)
        go(i, redefs) ==
            IF i > Len(attrs) THEN Ok(redefs)
            ELSE LET r == association_step(G, ov, c, attrs[i])
                 IN IF r.err # "" THEN Raise(r.err)
                    ELSE LET t == go(i + 1, redefs \o r.redef)
                         IN [lines |-> r.lines \o t.lines, err |-> t.err]
    IN go(1, << >>)

\* One name of a subsets slot: [import line], the linkage, or nothing.
subset_step_any(G, sms, c, a, value) ==
    LET r == attribute(G, c, value, sms)
    IN IF r.err # "" THEN Raise(r.err)
       ELSE IF r.found
       THEN Ok(<< [k |-> "add", owner |-> G[r.owner].name, union |-> r.a.name,
                   c |-> G[c].name, a |-> a.name] >>)
       ELSE Ok(<< >>)
subset_step(G, sms, c, a, value) ==
    LET r == attribute(G, c, value, sms)
    IN IF r.err # "" THEN Raise(r.err)
       ELSE IF r.found /\ r.a.isDerived
       THEN Ok((IF r.et # None
                THEN << ImportLine(r.et, G[r.owner].name) >> ELSE << >>)
               \o << [k |-> "add", owner |-> G[r.owner].name, union |-> r.a.name,
                      c |-> G[c].name, a |-> a.name] >>)
       ELSE Ok(<< >>)

\* subsets(c, super_models)
subsets(G, sms, c) ==
    LET attrs == G[c].ownedAttribute
        RECURSIVE go(_, _)
        go(i, j) ==
            IF i > Len(attrs) THEN Ok(<< >>)
            ELSE LET a == attrs[i]
                     nt == no_target(G, a)
                 IN IF nt = "RecursionError" THEN Raise(nt)
                    ELSE IF nt = "True" \/ j > Len(a.subsets) THEN go(i + 1, 1)
                    ELSE LET r == subset_step(G, sms, c, a, a.subsets[j])
                         IN IF r.err # "" THEN r
                            ELSE LET t == go(i, j + 1)
                                 IN [lines |-> r.lines \o t.lines, err |-> t.err]
    IN go(1, 1)

-----------------------------------------------------------------------------
(* The passes of coder(), one class at a time. *)

\* First pass, the body of "for c in classes": the class-level override, the
\* import of the supermodel's class, or the class statement and its slots.
\* list(variables(...)) runs after the class statement has been yielded.
\* yield class_declaration(c); the slots or "pass"; two blank lines
declare_class(G, ov, c) ==
    LET v == variables(G, ov, c)
    IN IF v.err # ""
       THEN [lines |-> << class_declaration(G, c) >>, err |-> v.err, imports |-> {}]
       ELSE [lines |-> << class_declaration(G, c) >>
                       \o (IF v.lines = << >> THEN << PassLine(G[c].name) >>
                           ELSE v.lines)
                       \o << BlankLine, BlankLine >>,
             err |-> "", imports |-> {}]

declare_through(G, ov, sms, c) ==
    LET cn == G[c].name
        res(ls, e, imp) == [lines |-> ls, err |-> e, imports |-> imp]
    IN IF has_override(ov, ClassLevelKey(cn))
       THEN res(<< OverrideText(ClassLevelKey(cn)) >>, "", {})
       ELSE LET s == in_super_model(G, cn, sms)
            IN IF s.err # "" THEN res(<< >>, s.err, {})
               ELSE IF s.found
               THEN [declare_class(G, ov, c) EXCEPT
                        !.lines = << ImportLine(s.lang, cn) >> \o @,
                        !.imports = {ImportLine(s.lang, cn)}]
               ELSE declare_class(G, ov, c)
declare(G, ov, sms, c) ==
    LET cn == G[c].name
        res(ls, e, imp) == [lines |-> ls, err |-> e, imports |-> imp]
    IN IF has_override(ov, ClassLevelKey(cn))
       THEN res(<< OverrideText(ClassLevelKey(cn)) >>, "", {})
       ELSE LET s == in_super_model(G, cn, sms)
            IN IF s.err # "" THEN res(<< >>, s.err, {})
               ELSE IF s.found
               THEN res(<< ImportLine(s.lang, cn) >>, "", {ImportLine(s.lang, cn)})
               ELSE declare_class(G, ov, c)

\* Third pass: the lines of subsets(c, super_models) that coder() passes on;
\* an import line only when it was not yielded before.
RECURSIVE dedup_imports(_, _)
dedup_imports(lines, imported) ==
    IF lines = << >> THEN [lines |-> << >>, imports |-> imported]
    ELSE LET l == Head(lines)
             t == dedup_imports(Tail(lines),
                                IF l.k = "import" THEN imported \cup {l}
                                ELSE imported)
         IN [lines |-> (IF l.k = "import" /\ l \in imported THEN << >>
                        ELSE << l >>) \o t.lines,
             imports |-> t.imports]

link_all(G, sms, c, imported) ==
    LET r == subsets(G, sms, c)
    IN [lines |-> r.lines, err |-> r.err,
        imports |-> imported \cup { r.lines[i] : i \in { j \in 1..Len(r.lines) :
                                                           r.lines[j].k = "import" } }]
link(G, sms, c, imported) ==
    LET r == subsets(G, sms, c)
        d == dedup_imports(r.lines, imported)
    IN [lines |-> d.lines, err |-> r.err, imports |-> d.imports]

\* print(line, file=out) for every line the generator yields
print_buffered(sink, lines) == sink
print(sink, lines) == sink \o lines

-----------------------------------------------------------------------------
(* coder() as a whole: the lines it yields for the classes cs in order,    *)
(* up to the raise when there is one.                                      *)

RECURSIVE first_pass(_, _, _, _, _)
first_pass(G, ov, sms, cs, i) ==
    IF i > Len(cs) THEN [lines |-> << >>, err |-> "", imports |-> {}]
    ELSE LET r == declare(G, ov, sms, cs[i])
         IN IF r.err # "" THEN r
            ELSE LET t == first_pass(G, ov, sms, cs, i + 1)
                 IN [lines |-> r.lines \o t.lines, err |-> t.err,
                     imports |-> r.imports \cup t.imports]

RECURSIVE second_pass(_, _, _, _)
second_pass(G, ov, cs, i) ==
    IF i > Len(cs) THEN << BlankLine >>
    ELSE operations(G, ov, cs[i]) \o second_pass(G, ov, cs, i + 1)

RECURSIVE third_pass(_, _, _, _, _, _)
third_pass(G, ov, sms, cs, i, imported) ==
    IF i > Len(cs) THEN Ok(<< >>)
    ELSE LET a == associations(G, ov, cs[i])
             l == link(G, sms, cs[i], imported)
         IN IF a.err # "" THEN a
            ELSE IF l.err # "" THEN [lines |-> a.lines \o l.lines, err |-> l.err]
            ELSE LET t == third_pass(G, ov, sms, cs, i + 1, l.imports)
                 IN [lines |-> a.lines \o l.lines \o t.lines, err |-> t.err]

coder_lines(G, ov, sms, cs) ==
    LET head == << HeaderLine >>
                \o (IF ov.header THEN << OverrideHeaderLine >> ELSE << >>)
        p1 == first_pass(G, ov, sms, cs, 1)
        p3 == third_pass(G, ov, sms, cs, 1, p1.imports)
    IN IF p1.err # "" THEN [lines |-> head \o p1.lines, err |-> p1.err]
       ELSE [lines |-> head \o p1.lines \o second_pass(G, ov, cs, 1) \o p3.lines,
             err |-> p3.err]

-----------------------------------------------------------------------------
(* Inputs. *)

Range(s) == { s[i] : i \in 1..Len(s) }

\* The members of a set of numbers as a sequence, ascending or descending.
RECURSIVE Ascending(_)
Ascending(S) ==
    IF S = {} THEN << >>
    ELSE LET m == CHOOSE x \in S : \A y \in S : x <= y
         IN << m >> \o Ascending(S \ {m})

RECURSIVE Reverse(_)
Reverse(s) == IF s = << >> THEN << >> ELSE Reverse(Tail(s)) \o << Head(s) >>

PlainNames == << <<"A">>, <<"B">>, <<"C">>, <<"D">>, <<"T">> >>

NoOverrides == [header |-> FALSE, keys |-> {}]

\* Inheritance structures: NumClasses plain classes, any generalization
\* edges (cycles and self-generalization included) up to MaxEdges.
StructureInputs ==
    LET Ids == 1..NumClasses
        Edges == { es \in SUBSET (Ids \X Ids) : Cardinality(es) <= MaxEdges }
    IN { [ E |-> [ c \in Ids |->
                   [ Class0 EXCEPT
                       !.name = PlainNames[c],
                       !.generalization =
                           LET bs == Ascending({ b \in Ids : <<c, b>> \in es })
                           IN IF rev THEN Reverse(bs) ELSE bs ] ],
           model |-> Ascending(Ids),
           super_models |-> << >>,
           overrides |-> NoOverrides ] : es \in Edges, rev \in BOOLEAN }

\* Selection: three classes in a fixed shape, one of them of a kind that
\* coder() does not select, or linked by the baseClass idiom.
BaseClassEnd(b) ==
    [Attr0 EXCEPT !.name = "baseClass", !.type = b, !.association = "Association",
                  !.endClass = b]

SelectionShapes ==
    { [gen |-> << << >>, << >>, << >> >>,         base |-> << 0, 0, 0 >>],
      [gen |-> << << >>, <<1>>, <<2>> >>,         base |-> << 0, 0, 0 >>],
      [gen |-> << <<2>>, <<3>>, << >> >>,         base |-> << 0, 0, 0 >>],
      [gen |-> << << >>, <<1>>, <<1, 2>> >>,      base |-> << 0, 0, 0 >>],
      [gen |-> << << >>, << >>, <<2>> >>,         base |-> << 0, 1, 0 >>],
      [gen |-> << << >>, << >>, << >> >>,         base |-> << 2, 3, 0 >>],
      [gen |-> << <<2>>, <<1>>, << >> >>,         base |-> << 0, 0, 1 >>],
      [gen |-> << << >>, << >>, << >> >>,         base |-> << 2, 1, 0 >>],
      [gen |-> << << >>, << >>, << >> >>,         base |-> << 0, 0, 3 >>] }

Kinds == {"plain", "profile", "nested", "enumeration", "tilde", "simple"}

KindOf(cls, kind) ==
    [cls EXCEPT
        !.name = IF kind = "enumeration" THEN <<"A", "Kind">>
                 ELSE IF kind = "tilde" THEN <<"~", "A">> ELSE @,
        !.owningPackage = IF kind = "profile" THEN 2
                          ELSE IF kind = "nested" THEN 3 ELSE @,
        !.stereo = (kind = "simple")]

SelectionInputs ==
    { [ E |-> [ c \in 1..3 |->
                KindOf([Class0 EXCEPT
                           !.name = IF c = 1 THEN <<"B">>
                                    ELSE IF c = 2 THEN <<"C">> ELSE <<"D">>,
                           !.generalization = sh.gen[c],
                           !.ownedAttribute =
                               IF sh.base[c] = 0 THEN << >>
                               ELSE << BaseClassEnd(sh.base[c]) >>],
                       IF c = k THEN kind ELSE "plain") ],
        model |-> << 1, 2, 3 >>,
        super_models |-> << >>,
        overrides |-> NoOverrides ]
      : sh \in SelectionShapes, k \in 1..3, kind \in Kinds }

-----------------------------------------------------------------------------
(* Inputs with attributes: class A (1), class B (2) that generalizes A,    *)
(* the enumeration AKind (3), the simple type S (4), and the classes of    *)
(* the supermodels (5..8).                                                 *)

\* Most supermodels of an input.
MaxSuperModels == 2
\* Most attributes of class B in the inputs that combine attributes.
MaxAttrs == 2

NameA == <<"A">>
NameB == <<"B">>

Rel(n) ==
    [Attr0 EXCEPT !.name = n, !.type = 1, !.association = "Association",
                  !.upperValue = "*"]

Owner == [name |-> "owner", class_ |-> TRUE, aggregation |-> "none"]

\* The shapes an attribute named n can take.
Shapes(n) ==
    { [Attr0 EXCEPT !.name = n, !.typeValue = "str"],
      [Attr0 EXCEPT !.name = n, !.typeValue = "int", !.defaultValue = "true"],
      [Attr0 EXCEPT !.name = n, !.typeValue = "str", !.defaultValue = "a"],
      [Rel(n) EXCEPT !.typeValue = "Foo", !.defaultValue = "a"],
      [Rel(n) EXCEPT !.aggregation = "composite", !.lowerValue = "1",
                     !.hasOpposite = TRUE, !.opposite = Owner],
      [Rel(n) EXCEPT !.hasOpposite = TRUE,
                     !.opposite = [Owner EXCEPT !.aggregation = "composite"]],
      [Rel(n) EXCEPT !.aggregation = "shared", !.upperValue = "1",
                     !.hasOpposite = TRUE,
                     !.opposite = [Owner EXCEPT !.class_ = FALSE]],
      [Rel(n) EXCEPT !.isDerived = TRUE, !.aggregation = "composite",
                     !.upperValue = "1"],
      [Rel(n) EXCEPT !.isDerived = TRUE],
      [Rel(n) EXCEPT !.redefines = "u", !.aggregation = "composite"],
      [Rel(n) EXCEPT !.redefines = "u"],
      [Attr0 EXCEPT !.name = n, !.isDerived = TRUE],
      [Attr0 EXCEPT !.name = n, !.isDerived = TRUE, !.typeValue = "str"],
      [Attr0 EXCEPT !.name = n],
      [Rel(n) EXCEPT !.name = None],
      [Rel(n) EXCEPT !.name = None, !.isDerived = TRUE],
      [Rel(n) EXCEPT !.subsets = << "u" >>],
      [Rel(n) EXCEPT !.subsets = << "u", "v" >>, !.aggregation = "composite"],
      [Rel(n) EXCEPT !.subsets = << "w" >>],
      [Rel(n) EXCEPT !.type = 3],
      [Rel(n) EXCEPT !.association = "Extension"] }

\* The shapes that are combined with one another.
FewShapes(n) ==
    { [Rel(n) EXCEPT !.aggregation = "composite"],
      [Rel(n) EXCEPT !.isDerived = TRUE],
      [Rel(n) EXCEPT !.redefines = "u"],
      [Rel(n) EXCEPT !.name = None],
      [Rel(n) EXCEPT !.subsets = << "u" >>],
      [Attr0 EXCEPT !.name = n, !.typeValue = "str"],
      [Attr0 EXCEPT !.name = n] }

\* The attributes of class A: what a name of a subsets slot resolves to.
UnionHolders ==
    { << >>,
      << [Rel("u") EXCEPT !.isDerived = TRUE] >>,
      << Rel("u") >>,
      << [Attr0 EXCEPT !.name = "u", !.isDerived = TRUE] >>,
      << Rel("x") >>,
      << [Rel("u") EXCEPT !.isDerived = TRUE], Rel("v") >> }

Universe(aAttrs, bAttrs, bOps) ==
    << [Class0 EXCEPT !.name = NameA, !.ownedAttribute = aAttrs],
       [Class0 EXCEPT !.name = NameB, !.generalization = <<1>>,
                      !.ownedAttribute = bAttrs, !.ownedOperation = bOps],
       [Class0 EXCEPT !.name = <<"A", "Kind">>,
                      !.ownedAttribute = << [Attr0 EXCEPT !.name = "u"],
                                            [Attr0 EXCEPT !.name = "v"] >>],
       [Class0 EXCEPT !.name = <<"S">>, !.stereo = TRUE],
       \* supermodel classes
       [Class0 EXCEPT !.name = NameB, !.generalization = <<6>>,
                      !.ownedAttribute = << [Rel("w") EXCEPT !.isDerived = TRUE,
                                                             !.type = 6] >>],
       [Class0 EXCEPT !.name = NameA,
                      !.ownedAttribute = << [Rel("v") EXCEPT !.isDerived = TRUE,
                                                             !.type = 6] >>],
       [Class0 EXCEPT !.name = NameB, !.owningPackage = 3],
       [Class0 EXCEPT !.name = NameB,
                      !.ownedAttribute = << [Rel("w") EXCEPT !.type = 8] >>] >>

SuperCatalog ==
    { [lang |-> "UML",   known |-> {NameA, NameB}, ids |-> << 5, 6 >>],
      [lang |-> "Core",  known |-> {NameB},        ids |-> << 7, 8 >>],
      [lang |-> "Prof",  known |-> {NameB},        ids |-> << 7 >>],
      [lang |-> "SysML", known |-> {},             ids |-> << 8 >>] }

SuperLists ==
    UNION { [1..n -> SuperCatalog] : n \in 0..MaxSuperModels }

UML == [lang |-> "UML", known |-> {NameA, NameB}, ids |-> << 5, 6 >>]

KeyX == MemberKey(NameB, "x")
KeyOp == MemberKey(NameB, "op")

\* Class-level overrides and supermodels.
ClassLevelInputs ==
    { [ E |-> Universe(aAttrs, << [Rel("x") EXCEPT !.subsets = subs] >>, << >>),
        model |-> << 1, 2, 3, 4 >>,
        super_models |-> sms,
        overrides |-> [header |-> keys # {}, keys |-> keys] ]
      : aAttrs \in { << >>, << [Rel("u") EXCEPT !.isDerived = TRUE] >> },
        subs \in { << "w" >>, << "u", "w", "v" >> },
        keys \in { {}, {ClassLevelKey(NameA)}, {ClassLevelKey(NameB)} },
        sms \in SuperLists }

\* One attribute of any shape in class B.
AttributeInputs ==
    { [ E |-> Universe(aAttrs, << a >>, ops),
        model |-> << 1, 2, 3, 4 >>,
        super_models |-> sms,
        overrides |-> [header |-> FALSE, keys |-> keys] ]
      : aAttrs \in UnionHolders, a \in Shapes("x"),
        ops \in { << >>, << "op" >> },
        keys \in { {}, {KeyX}, {KeyX, KeyOp} },
        sms \in { << >>, << UML >> } }

\* Several attributes in class B, stored in an order that is not sorted.
StoredNames == << "y", "x", "z", "w" >>

CombinedInputs ==
    { [ E |-> Universe(aAttrs, bAttrs, << >>),
        model |-> << 1, 2, 3, 4 >>,
        super_models |-> << >>,
        overrides |-> [header |-> FALSE, keys |-> keys] ]
      : aAttrs \in { << >>, << [Rel("u") EXCEPT !.isDerived = TRUE] >> },
        bAttrs \in UNION { { s \in [1..n -> UNION { FewShapes(StoredNames[i])
                                                    : i \in 1..n }] :
                               \A i \in 1..n :
                                   s[i] \in FewShapes(StoredNames[i]) }
                           : n \in 2..MaxAttrs },
        keys \in { {}, {KeyX} } }

Inputs ==
    StructureInputs \cup SelectionInputs \cup ClassLevelInputs
    \cup AttributeInputs \cup CombinedInputs

\* No call of attribute() on its own.
LookupIdle ==
    [ G |-> << >>, sms |-> << >>, c |-> NoClass, name |-> None, pc |-> "idle",
      result |-> NotFound ]

\* No run of resolve_attribute_type_values.
FactoryIdle == [ classes |-> << >>, stored |-> << >>, props |-> << >>,
                 pc |-> "idle", i |-> 0, error |-> "" ]

\* No run of the legacy generator.
LegacyIdle ==
    [ G |-> << >>, order |-> << >>, ov |-> {}, pc |-> "idle", i |-> 0,
      stack |-> << >>, written |-> {}, out |-> << >>, error |-> "" ]

Init ==
    /\ \E i \in Inputs :
          /\ E = i.E
          /\ model = i.model
          /\ super_models = i.super_models
          /\ overrides = i.overrides
    /\ pc = "order"
    /\ sel = 1
    /\ stack = << >>
    /\ seen_classes = {}
    /\ classes = << >>
    /\ idx = 0
    /\ already_imported = {}
    /\ out = << >>
    /\ error = ""
    /\ legacy = LegacyIdle
    /\ factory = FactoryIdle
    /\ lookup = LookupIdle

-----------------------------------------------------------------------------
(* order_classes, run by list() before coder() yields its first line. *)

Fail(e) ==
    /\ pc' = "failed"
    /\ error' = e

Top == stack[Len(stack)]
Pop == SubSeq(stack, 1, Len(stack) - 1)

\* order(c) is entered: a class already seen returns at once.
order_seen_never(c) == FALSE
order_seen(c) == c \in seen_classes

\* The frame of order(c): the bases are visited before c is yielded.
order_frame_leaf(G, c) == [c |-> c, rest |-> << >>]
order_frame(G, c) == [c |-> c, rest |-> bases(G, c)]

\* for c in classes: yield from order(c) -- the next class of the selecting
\* generator is tested and, when selected, order(c) is called.
OrderCall ==
    /\ pc = "order" /\ stack = << >> /\ sel <= Len(model)
    /\ LET c == model[sel]
           s == selected(E, c)
       IN IF s = "RecursionError"
          THEN Fail("RecursionError") /\ UNCHANGED << sel, stack >>
          ELSE /\ sel' = sel + 1
               /\ stack' = IF s = "True" /\ ~order_seen(c)
                           THEN << order_frame(E, c) >>
                           ELSE stack
               /\ UNCHANGED << pc, error >>
    /\ UNCHANGED others
    /\ UNCHANGED << input, seen_classes, classes, idx, already_imported, out >>

\* for b in bases(c): yield from order(b)
OrderBase ==
    /\ pc = "order" /\ stack # << >> /\ Top.rest # << >>
    /\ LET b == Head(Top.rest)
           popped == [stack EXCEPT ![Len(stack)].rest = Tail(Top.rest)]
       IN IF order_seen(b)
          THEN stack' = popped /\ UNCHANGED << pc, error >>
          ELSE IF Len(stack) >= RecursionLimit
          THEN Fail("RecursionError") /\ UNCHANGED stack
          ELSE /\ stack' = Append(popped, order_frame(E, b))
               /\ UNCHANGED << pc, error >>
    /\ UNCHANGED others
    /\ UNCHANGED << input, sel, seen_classes, classes, idx, already_imported, out >>

\* yield c; seen_classes.add(c)
OrderYield ==
    /\ pc = "order" /\ stack # << >> /\ Top.rest = << >>
    /\ classes' = Append(classes, Top.c)
    /\ seen_classes' = seen_classes \cup {Top.c}
    /\ stack' = Pop
    /\ UNCHANGED others
    /\ UNCHANGED << input, pc, sel, idx, already_imported, out, error >>

\* list() is complete: yield header, yield overrides.header
Header ==
    /\ pc = "order" /\ stack = << >> /\ sel > Len(model)
    /\ LET head == << HeaderLine >>
                   \o (IF overrides.header THEN << OverrideHeaderLine >> ELSE << >>)
       IN IF classes = << >>
          THEN out' = print(out, head \o << BlankLine >>) /\ pc' = "done"
          ELSE out' = print(out, head) /\ pc' = "declare"
    /\ idx' = 1
    /\ UNCHANGED others
    /\ UNCHANGED << input, sel, stack, seen_classes, classes, already_imported,
                    error >>

\* Where the loop goes after the class at idx.
Advance(here, next) ==
    IF idx < Len(classes)
    THEN idx' = idx + 1 /\ pc' = here
    ELSE idx' = 1 /\ pc' = next

\* First loop of coder(), one class.
Declare ==
    /\ pc = "declare"
    /\ LET r == declare(E, overrides, super_models, classes[idx])
       IN /\ out' = print(out, r.lines)
          /\ already_imported' = already_imported \cup r.imports
          /\ IF r.err # ""
             THEN Fail(r.err) /\ UNCHANGED idx
             ELSE Advance("declare", "operations") /\ UNCHANGED error
    /\ UNCHANGED others
    /\ UNCHANGED << input, sel, stack, seen_classes, classes >>

\* Second loop, one class; yield "" after the last.
Operations ==
    /\ pc = "operations"
    /\ out' = print(out, operations(E, overrides, classes[idx])
                         \o (IF idx = Len(classes) THEN << BlankLine >> ELSE << >>))
    /\ Advance("operations", "associations")
    /\ UNCHANGED others
    /\ UNCHANGED << input, sel, stack, seen_classes, classes, already_imported,
                    error >>

\* Third loop: yield from associations(c, overrides)
Associations ==
    /\ pc = "associations"
    /\ LET r == associations(E, overrides, classes[idx])
       IN /\ out' = print(out, r.lines)
          /\ IF r.err # "" THEN Fail(r.err)
             ELSE pc' = "subsets" /\ UNCHANGED error
    /\ UNCHANGED others
    /\ UNCHANGED << input, sel, stack, seen_classes, classes, idx,
                    already_imported >>

\* Third loop: for line in subsets(c, super_models)
Subsets ==
    /\ pc = "subsets"
    /\ LET r == link(E, super_models, classes[idx], already_imported)
       IN /\ out' = print(out, r.lines)
          /\ already_imported' = r.imports
          /\ IF r.err # ""
             THEN Fail(r.err) /\ UNCHANGED idx
             ELSE Advance("associations", "done") /\ UNCHANGED error
    /\ UNCHANGED others
    /\ UNCHANGED << input, sel, stack, seen_classes, classes >>

Next ==
    \/ OrderCall \/ OrderBase \/ OrderYield \/ Header
    \/ Declare \/ Operations \/ Associations \/ Subsets

Spec == Init /\ [][Next]_vars

-----------------------------------------------------------------------------
(* The legacy generator, utils/command/gen_uml.py: generate() tags the     *)
(* stereotyped classes and their specializations as written, then calls    *)
(* Writer.write_classdef for every class of the dict.                      *)

\* Number of classes of an input of the legacy generator.
LegacyClasses == 3
\* Most generalizations of such an input.
LegacyEdges == 2

\* classes[general].specialization, in the order the generalizations are
\* visited
specialization(G, c) ==
    Ascending({ x \in DOMAIN G : \E i \in 1..Len(G[x].generalization) :
                                     G[x].generalization[i] = c })

\* tag_children(me): the classes tagged, in order; d frames are left.
RECURSIVE tag_children(_, _, _)
RECURSIVE tag_each(_, _, _, _)
tag_rest(r, G, cs, i, d) ==
    IF r.err # "" THEN [names |-> << cs[i] >> \o r.names, err |-> r.err]
    ELSE [tag_each(G, cs, i + 1, d) EXCEPT !.names = << cs[i] >> \o r.names \o @]

tag_each(G, cs, i, d) ==
    IF i > Len(cs) THEN [names |-> << >>, err |-> ""]
    ELSE tag_rest(tag_children(G, cs[i], d - 1), G, cs, i, d)

tag_children(G, me, d) ==
    IF d = 0 THEN [names |-> << >>, err |-> "RecursionError"]
    ELSE tag_each(G, specialization(G, me), 1, d)

StereotypedLine(c, of) == [k |-> "stereotyped", c |-> c, of |-> of]
TooLines(cs, of) == [i \in 1..Len(cs) |-> [k |-> "stereotyped too", c |-> cs[i], of |-> of]]

\* 'class %s(%s): pass\n', or the text write_override writes for the name
ClassDefLine(G, c) ==
    IF G[c].name \in legacy.ov
    THEN [k |-> "override", c |-> c]
    ELSE [k |-> "classdef", c |-> c,
          bases |-> [i \in 1..Len(G[c].generalization) |->
                        G[G[c].generalization[i]].name]]

\* write_classdef(clazz) is entered: the frame of the call.
write_frame_leaf(G, c) == [c |-> c, rest |-> << >>]
write_frame(G, c) == [c |-> c, rest |-> G[c].generalization]

LegacyInputs ==
    LET Ids == 1..LegacyClasses
        Edges == { es \in SUBSET (Ids \X Ids) : Cardinality(es) <= LegacyEdges }
    IN { [ G |-> [ c \in Ids |->
                   [ name |-> PlainNames[c],
                     generalization |-> Ascending({ b \in Ids : <<c, b>> \in es }),
                     appliedStereotype |-> (c = st) ] ],
           \* classes.values(): the metaclass of an Extension is deleted
           order |-> LET all == Ascending(Ids \ {meta})
                     IN IF rev THEN Reverse(all) ELSE all,
           ov |-> IF o = 0 THEN {} ELSE {PlainNames[o]} ]
         : es \in Edges, st \in 0..LegacyClasses, meta \in {0, 1},
           o \in {0, 2}, rev \in BOOLEAN }

LegacyInit ==
    /\ \E i \in LegacyInputs :
          legacy = [ G |-> i.G, order |-> i.order, ov |-> i.ov, pc |-> "tag",
                     i |-> 1, stack |-> << >>, written |-> {}, out |-> << >>,
                     error |-> "" ]
    /\ E = << >> /\ model = << >> /\ super_models = << >>
    /\ overrides = NoOverrides /\ pc = "idle" /\ sel = 0 /\ stack = << >>
    /\ seen_classes = {} /\ classes = << >> /\ idx = 0
    /\ already_imported = {} /\ out = << >> /\ error = ""
    /\ factory = FactoryIdle
    /\ lookup = LookupIdle

LegacyTop == legacy.stack[Len(legacy.stack)]

\* for c in classes.values(): if c.get('appliedStereotype'): ...
TagClass ==
    /\ legacy.pc = "tag" /\ legacy.i <= Len(legacy.order)
    /\ LET c == legacy.order[legacy.i]
           t == tag_children(legacy.G, c, RecursionLimit)
       IN IF ~ legacy.G[c].appliedStereotype
          THEN legacy' = [legacy EXCEPT !.i = @ + 1]
          ELSE legacy' =
                 [legacy EXCEPT
                    !.out = @ \o << StereotypedLine(c, c) >> \o TooLines(t.names, c),
                    !.written = @ \cup {c} \cup Range(t.names),
                    !.i = IF t.err = "" THEN @ + 1 ELSE @,
                    !.pc = IF t.err = "" THEN @ ELSE "failed",
                    !.error = t.err]
    /\ UNCHANGED << coder_vars, factory, lookup >>

\* for c in classes.values(): writer.write_classdef(c)
WriteLoop ==
    /\ \/ legacy.pc = "tag" /\ legacy.i > Len(legacy.order)
       \/ legacy.pc = "write" /\ legacy.stack = << >>
    /\ LET i == IF legacy.pc = "tag" THEN 1 ELSE legacy.i
       IN IF i > Len(legacy.order)
          THEN legacy' = [legacy EXCEPT !.pc = "done", !.i = i]
          ELSE legacy' =
                 [legacy EXCEPT
                    !.pc = "write", !.i = i + 1,
                    !.stack = IF legacy.order[i] \in legacy.written THEN << >>
                              ELSE << write_frame(legacy.G, legacy.order[i]) >>]
    /\ UNCHANGED << coder_vars, factory, lookup >>

\* for g in clazz.generalization: self.write_classdef(g)
WriteParent ==
    /\ legacy.pc = "write" /\ legacy.stack # << >> /\ LegacyTop.rest # << >>
    /\ LET g == Head(LegacyTop.rest)
           popped == [legacy.stack EXCEPT ![Len(legacy.stack)].rest = Tail(@)]
       IN IF g \in legacy.written
          THEN legacy' = [legacy EXCEPT !.stack = popped]
          ELSE IF Len(legacy.stack) >= RecursionLimit
          THEN legacy' = [legacy EXCEPT !.pc = "failed", !.error = "RecursionError"]
          ELSE legacy' = [legacy EXCEPT
                             !.stack = Append(popped, write_frame(legacy.G, g))]
    /\ UNCHANGED << coder_vars, factory, lookup >>

\* the override or 'class %s(%s): pass'; clazz.written = True
WriteDef ==
    /\ legacy.pc = "write" /\ legacy.stack # << >> /\ LegacyTop.rest = << >>
    /\ legacy' = [legacy EXCEPT
                    !.out = Append(@, ClassDefLine(legacy.G, LegacyTop.c)),
                    !.written = @ \cup {LegacyTop.c},
                    !.stack = SubSeq(@, 1, Len(@) - 1)]
    /\ UNCHANGED << coder_vars, factory, lookup >>

LegacyNext == TagClass \/ WriteLoop \/ WriteParent \/ WriteDef

LegacySpec == LegacyInit /\ [][LegacyNext]_vars

\* The places where the definition of class c was written.
DefPos(c) ==
    { p \in 1..Len(legacy.out) :
        legacy.out[p].k \in {"classdef", "override"} /\ legacy.out[p].c = c }

\* c was tagged as stereotyped (itself or as a specialization).
Tagged(c) ==
    \E p \in 1..Len(legacy.out) :
        legacy.out[p].k \in {"stereotyped", "stereotyped too"} /\ legacy.out[p].c = c

(* C13.  Legacy generator: after the loop over write_classdef every class  *)
(* of the dict that was not tagged as stereotyped has its definition (or   *)
(* override) written exactly once, after the definitions of all its        *)
(* generalization parents.                                                 *)
C13_LegacyClassDefs ==
    legacy.pc = "done" =>
        \A c \in Range(legacy.order) :
            ~ Tagged(c) =>
                /\ Cardinality(DefPos(c)) = 1
                /\ \A i \in 1..Len(legacy.G[c].generalization) :
                      \E p \in DefPos(legacy.G[c].generalization[i]) :
                          \A q \in DefPos(c) : p < q

\* A class that comes first in the dict is written after its parent, and
\* another class was tagged.
C13_Witness ==
    /\ legacy.pc = "done"
    /\ \E c, b \in Range(legacy.order) :
          /\ c # b /\ ~ Tagged(c) /\ ~ Tagged(b)
          /\ b \in Range(legacy.G[c].generalization)
          /\ \E i, j \in 1..Len(legacy.order) :
                i < j /\ legacy.order[i] = c /\ legacy.order[j] = b
          /\ \E p \in DefPos(b) : \E q \in DefPos(c) : p < q
    /\ \E x \in Range(legacy.order) : Tagged(x)


-----------------------------------------------------------------------------
(* resolve_attribute_type_values: the normalisation that load_model runs   *)
(* over every Property of an element factory before coder() sees it.       *)

\* Most properties of a factory.
MaxProps == 2

\* The text of a class name, as prop.typeValue spells it (parallel to
\* ClassNameOrder); an unnamed class has the name None.
NameTexts == << "A", "AKind", "B", "C", "D", "S", "T", "~A" >>
TypeText(n) == IF n = NoName THEN None ELSE NameTexts[ClassKey(n)]

\* next(element_factory.select(lambda e: isinstance(e, UML.Class) and
\* e.name == prop.typeValue), None): the first class of that name.
RECURSIVE class_named_from(_, _, _)
class_named_from(F, tv, c) ==
    IF c > Len(F) THEN NoClass
    ELSE IF TypeText(F[c].name) = tv THEN c
    ELSE class_named_from(F, tv, c + 1)

class_named(F, tv) == class_named_from(F, tv, 1)

\* The first if/elif/elif of the loop body: canonical spelling of a literal
\* type, or the class that the typeValue names.
resolve_type_value(F, prop) ==
    IF prop.typeValue \in {"String", "str", "object"}
    THEN [prop EXCEPT !.typeValue = "str"]
    ELSE IF prop.typeValue \in {"Integer", "int", "Boolean", "bool",
                                "UnlimitedNatural"}
    THEN [prop EXCEPT !.typeValue = "int"]
    ELSE IF class_named(F, prop.typeValue) # NoClass
    THEN [prop EXCEPT !.type = class_named(F, prop.typeValue),
                      !.typeValue = None,
                      !.aggregation = "composite"]
    ELSE prop

\* The second if: a target that is a simple type becomes the literal "str".
\* The result is [prop, error].
resolve_simple_type(F, prop) ==
    IF prop.type = NoClass THEN [prop |-> prop, error |-> ""]
    ELSE LET simple == is_simple_type(F, prop.type)
         IN IF simple = "RecursionError"
            THEN [prop |-> prop, error |-> "RecursionError"]
            ELSE IF simple = "True"
            THEN [prop |-> [prop EXCEPT !.typeValue = "str", !.type = NoClass],
                  error |-> ""]
            ELSE [prop |-> prop, error |-> ""]

\* The third if: no target and a typeValue that is not canonical.
resolve_check(r) ==
    IF r.error # "" THEN r
    ELSE IF r.prop.type = NoClass /\ r.prop.typeValue \notin {"str", "int", None}
    THEN [r EXCEPT !.error = "ValueError"]
    ELSE r

\* The body of the loop for one property.
resolve_property(F, prop) ==
    resolve_check(resolve_simple_type(F, resolve_type_value(F, prop)))

\* The factories: class A (1), the simple type S (2), T (3) that generalizes
\* S; then the same with an unnamed class, with A generalizing itself, and
\* with two classes named A.
FactoryClasses ==
    LET A == Class0
        S == [Class0 EXCEPT !.name = <<"S">>, !.stereo = TRUE]
        T == [Class0 EXCEPT !.name = <<"T">>, !.generalization = << 2 >>]
    IN { << A, S, T >>,
         << A, S, [T EXCEPT !.name = NoName, !.generalization = << >>] >>,
         << [A EXCEPT !.generalization = << 1 >>], S, T >>,
         << [A EXCEPT !.stereo = TRUE], A, T >> }

\* The spellings of typeValue in a stored model.
TypeValues == { None, "String", "Integer", "int", "A", "T", "Foo" }

\* A stored Property: its typeValue, its type and its aggregation.
StoredProps ==
    { [typeValue |-> tv, type |-> t, aggregation |-> "none"]
      : tv \in TypeValues, t \in 0..3 }

FactoryInit ==
    /\ \E F \in FactoryClasses, n \in 1..MaxProps :
         \E ps \in [1..n -> StoredProps] :
            factory = [ classes |-> F, stored |-> ps, props |-> ps,
                        pc |-> "resolve", i |-> 1, error |-> "" ]
    /\ legacy = LegacyIdle
    /\ lookup = LookupIdle
    /\ E = << >> /\ model = {} /\ super_models = << >> /\ overrides = << >>
    /\ pc = "idle" /\ sel = << >> /\ stack = << >>
    /\ seen_classes = {} /\ classes = << >> /\ idx = 0
    /\ already_imported = {} /\ out = << >> /\ error = ""

\* for prop in element_factory.select(UML.Property): one turn of the loop.
ResolveProperty ==
    /\ factory.pc = "resolve"
    /\ factory.i <= Len(factory.props)
    /\ LET r == resolve_property(factory.classes, factory.props[factory.i])
       IN factory' =
            IF r.error # ""
            THEN [factory EXCEPT !.props[factory.i] = r.prop,
                                 !.pc = "failed", !.error = r.error]
            ELSE [factory EXCEPT !.props[factory.i] = r.prop,
                                 !.i = factory.i + 1]
    /\ UNCHANGED << coder_vars, legacy, lookup >>

\* The loop is exhausted: the function returns.
ResolveReturn ==
    /\ factory.pc = "resolve"
    /\ factory.i > Len(factory.props)
    /\ factory' = [factory EXCEPT !.pc = "done"]
    /\ UNCHANGED << coder_vars, legacy, lookup >>

FactoryNext == ResolveProperty \/ ResolveReturn

FactorySpec == FactoryInit /\ [][FactoryNext]_vars

\* The property has a literal type.
HasLiteral(prop) == prop.typeValue # None
\* The property has a target class.
HasClass(prop) == prop.type # NoClass

(* C20.  After resolve_attribute_type_values returns, every property has   *)
(* a canonical literal type ("str" or "int") and no target class, or a     *)
(* target class and no literal type, or neither; none has both, and no     *)
(* target class is a simple type.                                          *)
C20_ExactlyOneTyping ==
    factory.pc = "done" =>
        \A k \in 1..Len(factory.props) :
            LET prop == factory.props[k]
            IN /\ \/ prop.typeValue \in {"str", "int"} /\ ~ HasClass(prop)
                  \/ HasClass(prop) /\ ~ HasLiteral(prop)
                  \/ ~ HasLiteral(prop) /\ ~ HasClass(prop)
               /\ ~ (HasLiteral(prop) /\ HasClass(prop))
               /\ HasClass(prop) =>
                     is_simple_type(factory.classes, prop.type) # "True"

\* The properties that the loop has been through.
Normalized ==
    { k \in 1..Len(factory.props) :
        k < factory.i \/ (k = factory.i /\ factory.pc = "failed") }

\* The stored property has no literal type spelling and no simple type as
\* its target.
NoSpelling(F, prop) ==
    /\ prop.typeValue = None
    /\ prop.type # NoClass => is_simple_type(F, prop.type) = "False"

(* C21.  A property whose typeValue is absent and whose target class, if   *)
(* any, is not a simple type is left as it was stored (type, typeValue and *)
(* aggregation) by resolve_attribute_type_values, in every element graph,  *)
(* those with an unnamed class included.                                   *)
C21_UnspelledUntouched ==
    \A k \in Normalized :
        NoSpelling(factory.classes, factory.stored[k]) =>
            factory.props[k] = factory.stored[k]

-----------------------------------------------------------------------------
(* attribute(c, name, super_models) on its own: class A (1) of the main    *)
(* model and an ordered list of supermodels, each a graph of its own with  *)
(* unique class names and acyclic generalizations.                         *)

\* The supermodels of a lookup.
LookupModels == 2

\* The classes of supermodel m: 2m and 2m + 1.
LookupIds(m) == << 2 * m, 2 * m + 1 >>

\* A supermodel's graph: which of its classes is named A and which B, the
\* package of each (3 lies inside the profile), the one generalization
\* between them (0: none, 1: first to second, 2: second to first).
LookupShapes ==
    [ swap : BOOLEAN, p1 : {1, 3}, p2 : {1, 3}, e : 0..2 ]

LookupClass(sh, second, holder, me) ==
    [Class0 EXCEPT
        !.name = IF sh.swap = second THEN NameA ELSE NameB,
        !.owningPackage = IF second THEN sh.p2 ELSE sh.p1,
        !.generalization =
            IF sh.e = 1 /\ ~ second THEN << me + 1 >>
            ELSE IF sh.e = 2 /\ second THEN << me - 1 >>
            ELSE << >>,
        !.ownedAttribute =
            IF holder = me THEN << [Rel("u") EXCEPT !.isDerived = TRUE] >>
            ELSE << >>]

LookupGraph(shs, holder) ==
    [ c \in 1..(2 * LookupModels + 1) |->
        IF c = 1
        THEN [Class0 EXCEPT !.name = NameA,
                            !.ownedAttribute =
                                IF holder = 1 THEN << Rel("u") >> ELSE << >>]
        ELSE LookupClass(shs[c \div 2], c % 2 = 1, holder, c) ]

LookupSupers ==
    [ m \in 1..LookupModels |->
        [lang |-> IF m = 1 THEN "UML" ELSE "Core",
         known |-> {NameA, NameB}, ids |-> LookupIds(m)] ]

LookupInit ==
    /\ \E shs \in [1..LookupModels -> LookupShapes],
          holder \in 0..(2 * LookupModels + 1) :
         lookup = [ G |-> LookupGraph(shs, holder), sms |-> LookupSupers,
                    c |-> 1, name |-> "u", pc |-> "call", result |-> NotFound ]
    /\ legacy = LegacyIdle
    /\ factory = FactoryIdle
    /\ E = << >> /\ model = {} /\ super_models = << >> /\ overrides = << >>
    /\ pc = "idle" /\ sel = << >> /\ stack = << >>
    /\ seen_classes = {} /\ classes = << >> /\ idx = 0
    /\ already_imported = {} /\ out = << >> /\ error = ""

\* element_type, d = attribute(c, value.strip(), super_models)
Lookup ==
    /\ lookup.pc = "call"
    /\ LET r == attribute(lookup.G, lookup.c, lookup.name, lookup.sms)
       IN lookup' = [lookup EXCEPT !.result = r,
                                   !.pc = IF r.err # "" THEN "failed" ELSE "done"]
    /\ UNCHANGED << coder_vars, legacy, factory >>

LookupNext == Lookup

LookupSpec == LookupInit /\ [][LookupNext]_vars

(* C23.  With a main model and supermodels whose generalization graphs are *)
(* each acyclic, attribute(c, name, super_models) returns: the recursion   *)
(* never runs into the interpreter's limit, also when the same class name  *)
(* occurs in the main model and in several supermodels.                    *)
C23_LookupReturns ==
    lookup.pc # "call" => lookup.result.err # "RecursionError"

-----------------------------------------------------------------------------
(* Vocabulary of the properties. *)

Ids == DOMAIN E

\* b is a base of c: a generalization target, or the class at the other end
\* of an association end of c named baseClass.
DirectBase(b, c) ==
    \/ \E i \in 1..Len(E[c].generalization) : E[c].generalization[i] = b
    \/ \E i \in 1..Len(E[c].ownedAttribute) :
          /\ E[c].ownedAttribute[i].name = "baseClass"
          /\ E[c].ownedAttribute[i].association # "none"
          /\ E[c].ownedAttribute[i].endClass = b

RECURSIVE Grow(_, _)
Grow(S, n) ==
    IF n = 0 THEN S
    ELSE Grow(S \cup { b \in Ids : \E x \in S : DirectBase(b, x) }, n - 1)

\* The transitive bases of c.
Ancestors(c) == Grow({ b \in Ids : DirectBase(b, c) }, Cardinality(Ids))

Acyclic == \A c \in Ids : c \notin Ancestors(c)

UniqueNames ==
    \A i, j \in 1..Len(model) : i # j => E[model[i]].name # E[model[j]].name

\* A line that declares the class named n.
Declares(l, n) ==
    \/ l.k = "class" /\ l.name = n
    \/ l.k = "override" /\ l.key = ClassLevelKey(n)
    \/ l.k = "import" /\ l.name = n

DeclPos(c) == { i \in 1..Len(out) : Declares(out[i], E[c].name) }
Declared(c) == DeclPos(c) # {}
FirstDecl(c) == CHOOSE i \in DeclPos(c) : \A j \in DeclPos(c) : i <= j

PosIn(s, x) == CHOOSE i \in 1..Len(s) : s[i] = x

ClassesListed == pc \in {"operations", "associations", "subsets", "done"}

\* The fatal conditions that are raised while coder() generates.
GenerationErrors ==
    { "ValueError: can not be written", "ValueError: unnamed attribute",
      "ValueError: unknown default value type", "AssertionError" }

-----------------------------------------------------------------------------
(* C1.  Order invariant: in an acyclic graph, when A is a transitive base  *)
(* of B (by generalization or the baseClass idiom) and B is declared in    *)
(* the output, A is declared too and strictly before B.                    *)
C1_OrderInvariant ==
    Acyclic =>
        \A a, b \in Range(classes) :
            (a \in Ancestors(b) /\ Declared(b))
                => (Declared(a) /\ FirstDecl(a) < FirstDecl(b))

\* A base that comes after its derived class in the input is declared first.
C1_Witness ==
    /\ pc = "done"
    /\ \E a, b \in Range(classes) :
          /\ a \in Ancestors(b)
          /\ PosIn(model, b) < PosIn(model, a)
          /\ Declared(a) /\ Declared(b)
          /\ FirstDecl(a) < FirstDecl(b)

(* C2.  Uniqueness: in an acyclic graph with unique class names every      *)
(* class is listed once, and the first pass emits exactly one declaring    *)
(* line for it (class statement, class-level override or import).          *)
C2_Uniqueness ==
    (Acyclic /\ UniqueNames /\ pc \in {"declare", "operations"}) =>
        /\ \A i, j \in 1..Len(classes) : i # j => classes[i] # classes[j]
        /\ \A i \in 1..Len(classes) :
              Cardinality(DeclPos(classes[i]))
                  = IF pc = "operations" \/ i < idx THEN 1 ELSE 0

\* The first pass is over for a class that reaches a base along two paths.
C2_Witness ==
    /\ pc = "operations"
    /\ \E a, b, c \in Range(classes) :
          /\ DirectBase(a, b) /\ DirectBase(a, c) /\ DirectBase(b, c)
          /\ Cardinality(DeclPos(a)) = 1

(* C3.  A class is emitted if and only if it is selected (a class that is  *)
(* no enumeration, simple type, profile member or tilde type); a base that *)
(* is not selected is never emitted.                                       *)
C3_EmittedIffSelected ==
    ClassesListed =>
        \A i \in 1..Len(model) :
            (model[i] \in Range(classes)) <=> (selected(E, model[i]) = "True")

(* C5.  As claimed: when a fatal condition is raised during generation,    *)
(* the sink holds none of the lines generated before it.                   *)
C5_NoPartialOutput ==
    (pc = "failed" /\ error \in GenerationErrors) => out = << >>

(* C5, amended.  When a fatal condition is raised during generation, the   *)
(* sink holds exactly the lines coder() yielded before the raise, the      *)
(* header first.                                                           *)
C5_SinkHoldsYieldedLines ==
    (pc = "failed" /\ error \in GenerationErrors) =>
        /\ coder_lines(E, overrides, super_models, classes).err = error
        /\ out = coder_lines(E, overrides, super_models, classes).lines
        /\ Len(out) >= 1 /\ out[1] = HeaderLine

\* The run died on an unnamed association end after lines were written.
C5_Witness ==
    /\ pc = "failed" /\ error = "ValueError: unnamed attribute"
    /\ \E i \in 1..Len(out) : out[i].k = "class"

(* C7.  A cycle among the bases is caught by the visited set: the          *)
(* traversal never holds a class twice and the run never ends by           *)
(* exhausting the recursion limit.                                         *)
C7_CycleDetected ==
    /\ error # "RecursionError"
    /\ \A i, j \in 1..Len(stack) : i # j => stack[i].c # stack[j].c

-----------------------------------------------------------------------------
(* Lines and the members they belong to. *)

MemberKinds == DefaultKinds \cup {"override", "slot_override", "add"}

\* The qualified name a line is written for.
KeyOf(l) ==
    IF l.k \in {"override", "slot_override"} THEN l.key
    ELSE MemberKey(l.c, l.a)

\* The line is written for a member (not a class) with an override entry.
ForOverridden(l) ==
    /\ l.k \in MemberKinds
    /\ KeyOf(l).m # ClassLevel
    /\ KeyOf(l) \in overrides.keys

\* The attributes of the listed classes with that qualified name.
AttrsNamed(cn, an) ==
    UNION { { E[c].ownedAttribute[i] : i \in { j \in 1..Len(E[c].ownedAttribute) :
                                               E[c].ownedAttribute[j].name = an } }
            : c \in { d \in Range(classes) : E[d].name = cn } }

\* The statement carries composite=True.
Flagged(l) == "composite" \in DOMAIN l /\ l.composite

(* C4.  As claimed: the only text emitted for a member with an override    *)
(* entry is the literal override text.                                     *)
C4_OnlyOverrideText ==
    \A i \in 1..Len(out) :
        ForOverridden(out[i]) => out[i] = OverrideText(KeyOf(out[i]))

(* C4, amended.  For a member K with an override entry no default text is  *)
(* written; the lines for K are the slot "name: get_type(K)" of the class  *)
(* body, the literal text get_override(K), and the linkage statements of   *)
(* the subset pass.                                                        *)
C4_OverridePrecedence ==
    \A i \in 1..Len(out) :
        ForOverridden(out[i]) =>
            /\ out[i].k \notin DefaultKinds
            /\ \/ out[i] = OverrideText(KeyOf(out[i]))
               \/ out[i] = OverrideSlot(KeyOf(out[i]))
               \/ out[i].k = "add"

\* An attribute with a target class is overridden: slot and literal text.
C4_Witness ==
    /\ pc = "done"
    /\ KeyX \in overrides.keys
    /\ \E a \in AttrsNamed(NameB, "x") : a.type # NoClass /\ ~ is_extension_end(a)
    /\ \E i, j \in 1..Len(out) :
          i < j /\ out[i] = OverrideSlot(KeyX) /\ out[j] = OverrideText(KeyX)

(* C9.  As claimed: every association, derived-union or redefinition       *)
(* statement of a composite attribute carries the composite flag, and no   *)
(* statement of another attribute does.                                    *)
C9_CompositeAlwaysFlagged ==
    \A i \in 1..Len(out) :
        out[i].k \in {"association", "derivedunion", "redefine"} =>
            \A a \in AttrsNamed(out[i].c, out[i].a) :
                Flagged(out[i]) <=> (a.aggregation = "composite")

(* C9, amended.  A plain association statement carries the composite flag  *)
(* exactly when its attribute's aggregation is "composite", whatever the   *)
(* aggregation of the opposite end; derived-union and redefinition         *)
(* statements never carry the flag.                                        *)
C9_CompositeOnAssociations ==
    \A i \in 1..Len(out) :
        /\ out[i].k = "association" =>
              \A a \in AttrsNamed(out[i].c, out[i].a) :
                  Flagged(out[i]) <=> (a.aggregation = "composite")
        /\ out[i].k \in {"derivedunion", "redefine"} => ~ Flagged(out[i])

\* A composite attribute whose opposite end is not composite is written as
\* a plain association with the flag.
C9_Witness ==
    /\ pc = "done"
    /\ \E i \in 1..Len(out) :
          /\ out[i].k = "association" /\ Flagged(out[i])
          /\ \E a \in AttrsNamed(out[i].c, out[i].a) :
                a.hasOpposite /\ a.opposite.aggregation # "composite"

-----------------------------------------------------------------------------
(* Subsets. *)

\* a has a target class: no simple type, enumeration or extension end.
HasTarget(a) ==
    /\ a.type # NoClass
    /\ is_simple_type(E, a.type) = "False"
    /\ ~ is_enumeration(E, a.type)
    /\ a.association # "Extension"

\* The linkage statements written for attribute a of class c and name x.
Links(c, a, x) ==
    { p \in 1..Len(out) :
        /\ out[p].k = "add"
        /\ out[p].c = E[c].name /\ out[p].a = a.name /\ out[p].union = x }

Resolved(c, x) ==
    /\ attribute(E, c, x, super_models).found
    /\ attribute(E, c, x, super_models).a.isDerived

-----------------------------------------------------------------------------
(* Supermodels. *)

RECURSIVE PackageChain(_)
PackageChain(p) ==
    IF p = 0 THEN {} ELSE {p} \cup PackageChain(Packages[p].owningPackage)

ProfileOwned(c) == \E p \in PackageChain(E[c].owningPackage) : Packages[p].isProfile
EnumerationName(n) == n # NoName /\ n[Len(n)] \in {"Kind", "Sort"}

\* The places <<m, i>> of the supermodel classes named n that qualify.
Qualifying(n) ==
    UNION { { << m, i >> : i \in { j \in 1..Len(super_models[m].ids) :
                                     /\ E[super_models[m].ids[j]].name = n
                                     /\ ~ ProfileOwned(super_models[m].ids[j])
                                     /\ ~ EnumerationName(n) } }
            : m \in 1..Len(super_models) }

FirstPlace(Q) ==
    CHOOSE q \in Q : \A r \in Q : q[1] < r[1] \/ (q[1] = r[1] /\ q[2] <= r[2])

-----------------------------------------------------------------------------
(* Non-fatal conditions. *)

\* A derived attribute without target type and without override.
Unimplemented(c, a) ==
    /\ a.isDerived /\ a.type = NoClass
    /\ ~ is_extension_end(a)
    /\ MemberKey(E[c].name, a.name) \notin overrides.keys

UnimplementedKeys ==
    UNION { { MemberKey(E[c].name, E[c].ownedAttribute[i].name)
              : i \in { j \in 1..Len(E[c].ownedAttribute) :
                          Unimplemented(c, E[c].ownedAttribute[j]) } }
            : c \in Range(classes) }

\* The names of a subsets slot that resolve to a derived attribute (or
\* whose resolution raises).
RECURSIVE LinkedNames(_, _)
LinkedNames(c, names) ==
    IF names = << >> THEN << >>
    ELSE (IF \/ attribute(E, c, Head(names), super_models).err # ""
             \/ Resolved(c, Head(names))
          THEN << Head(names) >> ELSE << >>) \o LinkedNames(c, Tail(names))

RECURSIVE OverriddenOps(_, _)
OverriddenOps(c, ops) ==
    IF ops = << >> THEN << >>
    ELSE (IF MemberKey(E[c].name, Head(ops)) \in overrides.keys
          THEN << Head(ops) >> ELSE << >>) \o OverriddenOps(c, Tail(ops))

\* The graph without the non-fatal conditions: no operation without
\* override, no subsets name that does not resolve to a derived attribute.
Quiet ==
    [ c \in Ids |->
        [ E[c] EXCEPT
            !.ownedOperation = OverriddenOps(c, @),
            !.ownedAttribute =
                [ i \in 1..Len(@) |->
                    [ @[i] EXCEPT !.subsets =
                        IF HasTarget(E[c].ownedAttribute[i])
                        THEN LinkedNames(c, @) ELSE @ ] ] ] ]

\* ... and with an override for every unimplemented derived attribute.
QuietOverrides == [overrides EXCEPT !.keys = @ \cup UnimplementedKeys]

\* The lines without those of the unimplemented members and the "pass"
\* that stands for an empty class body.
RECURSIVE Others(_)
Others(lines) ==
    IF lines = << >> THEN << >>
    ELSE (IF \/ Head(lines).k = "pass"
             \/ /\ Head(lines).k \in MemberKinds
                /\ KeyOf(Head(lines)) \in UnimplementedKeys
          THEN << >> ELSE << Head(lines) >>) \o Others(Tail(lines))

(* C6.  Non-fatal conditions never abort generation: when the graph        *)
(* without them (operations without override removed, unresolved and       *)
(* non-derived subsets names removed, unimplemented derived attributes     *)
(* overridden) generates completely, so does the graph itself; it writes   *)
(* no line for an unimplemented derived attribute, and every other line    *)
(* is the same, in the same order.                                         *)
C6_NonFatalNeverAborts ==
    (pc \in {"done", "failed"} /\ error # "RecursionError") =>
        LET q == coder_lines(Quiet, QuietOverrides, super_models, classes)
        IN q.err = "" =>
              /\ pc = "done"
              /\ \A i \in 1..Len(out) :
                    out[i].k \in MemberKinds => KeyOf(out[i]) \notin UnimplementedKeys
              /\ Others(out) = Others(q.lines)

\* A complete run over an unimplemented derived attribute, an operation
\* without override and a subsets name that does not resolve.
C6_Witness ==
    /\ pc = "done"
    /\ UnimplementedKeys # {}
    /\ \E c \in Range(classes) :
          /\ E[c].ownedOperation # << >>
          /\ OverriddenOps(c, E[c].ownedOperation) = << >>
          /\ \E i \in 1..Len(E[c].ownedAttribute) :
                /\ HasTarget(E[c].ownedAttribute[i])
                /\ LinkedNames(c, E[c].ownedAttribute[i].subsets)
                       # E[c].ownedAttribute[i].subsets

-----------------------------------------------------------------------------
(* Classes found in a supermodel. *)

\* in_super_model finds a class for c, and c has no class-level override.
Imported(c) ==
    /\ Qualifying(E[c].name) # {}
    /\ E[c].name \in super_models[FirstPlace(Qualifying(E[c].name))[1]].known
    /\ ClassLevelKey(E[c].name) \notin overrides.keys

ImportsOf(c) == { i \in 1..Len(out) : out[i].k = "import" /\ out[i].name = E[c].name }

SlotKinds == {"attribute", "enumeration", "relation", "slot_override"}
StatementKinds == {"association", "derivedunion", "redefine"}

\* No class statement and no slot of c.
NotDeclared(c) ==
    \A i \in 1..Len(out) :
        /\ ~ (out[i].k = "class" /\ out[i].name = E[c].name)
        /\ ~ (out[i].k = "pass" /\ out[i].c = E[c].name)
        /\ ~ (out[i].k \in SlotKinds /\ KeyOf(out[i]).c = E[c].name)

(* C11.  As claimed: for a class found in a supermodel the whole output    *)
(* holds exactly one import statement, no class statement, no slots, and   *)
(* no association, derived-union or redefinition statement of its owned    *)
(* attributes.                                                             *)
C11_ImportInsteadOfDeclaration ==
    pc = "done" =>
        \A c \in Range(classes) :
            Imported(c) =>
                /\ Cardinality(ImportsOf(c)) = 1
                /\ NotDeclared(c)
                /\ \A i \in 1..Len(out) :
                      ~ (out[i].k \in StatementKinds /\ out[i].c = E[c].name)

(* C11, amended.  For a class found in a supermodel the declaration pass   *)
(* emits exactly one import statement, and the output never holds a class  *)
(* statement or a slot of it; the association pass still emits the         *)
(* statements of its owned attributes: a named attribute with a target     *)
(* class, no override, no redefines tag and not derived gets its plain     *)
(* association statement.                                                  *)
C11_ImportInsteadOfClassStatement ==
    \A c \in Range(classes) :
        Imported(c) =>
            /\ NotDeclared(c)
            /\ pc = "operations" => Cardinality(ImportsOf(c)) = 1
            /\ pc = "done" =>
                  \A j \in 1..Len(E[c].ownedAttribute) :
                      LET a == E[c].ownedAttribute[j]
                      IN (/\ HasTarget(a) /\ a.name # None
                          /\ a.redefines = None /\ ~ a.isDerived
                          /\ MemberKey(E[c].name, a.name) \notin overrides.keys)
                         => \E i \in 1..Len(out) :
                               /\ out[i].k = "association"
                               /\ out[i].c = E[c].name /\ out[i].a = a.name

\* B is imported and its attribute x is written as an association.
C11_Witness ==
    /\ pc = "done"
    /\ \E c \in Range(classes) :
          /\ Imported(c)
          /\ Cardinality(ImportsOf(c)) = 1
          /\ \E i \in 1..Len(out) :
                out[i].k = "association" /\ out[i].c = E[c].name

-----------------------------------------------------------------------------
(* Stored order of the attributes. *)

\* The graph with the attributes at places i and j of class c exchanged.
Exchanged(c, i, j) ==
    [E EXCEPT ![c].ownedAttribute =
        [@ EXCEPT ![i] = E[c].ownedAttribute[j], ![j] = E[c].ownedAttribute[i]]]

(* C12.  Determinism by total order: a graph that differs only in the      *)
(* stored order of a class's ownedAttribute collection yields the same     *)
(* sequence of output lines.                                               *)
C12_StoredOrderIrrelevant ==
    pc = "done" =>
        \A c \in Range(classes) :
            \A i, j \in 1..Len(E[c].ownedAttribute) :
                coder_lines(Exchanged(c, i, j), overrides, super_models,
                            classes).lines = out

-----------------------------------------------------------------------------
(* The order of the classes as a function of the graph alone. *)

\* order(c) on the classes yielded so far: the bases first, then c.
RECURSIVE order(_, _, _)
RECURSIVE order_bases(_, _, _)
order_bases(G, bs, acc) ==
    IF bs = << >> THEN acc
    ELSE order_bases(G, Tail(bs), order(G, Head(bs), acc))

order(G, c, acc) ==
    IF c \in Range(acc) THEN acc
    ELSE Append(order_bases(G, bases(G, c), acc), c)

\* list(order_classes(c for c in model.select(UML.Class) if ...))
RECURSIVE order_classes(_, _, _)
order_classes(G, m, acc) ==
    IF m = << >> THEN acc
    ELSE order_classes(G, Tail(m),
                       IF selected(G, Head(m)) = "True" THEN order(G, Head(m), acc)
                       ELSE acc)

\* The class names that the lines declare, in order.
RECURSIVE DeclaredNames(_)
DeclaredNames(lines) ==
    IF lines = << >> THEN << >>
    ELSE (IF Head(lines).k \in {"class", "import"} THEN << Head(lines).name >>
          ELSE IF Head(lines).k = "override" /\ Head(lines).key.m = ClassLevel
          THEN << Head(lines).key.c >>
          ELSE << >>) \o DeclaredNames(Tail(lines))

(* C14.  Overrides never affect ordering: the list of classes is the one   *)
(* computed from the graph alone, whatever the override table holds, and   *)
(* the first pass declares the classes in that order, a class with a       *)
(* class-level override by its override text at its own position.          *)
C14_OverridesKeepOrder ==
    pc = "operations" =>
        /\ classes = order_classes(E, model, << >>)
        /\ DeclaredNames(out) = [i \in 1..Len(classes) |-> E[classes[i]].name]
        /\ \A i \in 1..Len(classes) :
              ClassLevelKey(E[classes[i]].name) \in overrides.keys
                  <=> OverrideText(ClassLevelKey(E[classes[i]].name)) \in Range(out)

\* B has a class-level override and is declared after its base A.
C14_Witness ==
    /\ pc = "operations"
    /\ ClassLevelKey(NameB) \in overrides.keys
    /\ \E i, j \in 1..Len(out) :
          /\ i < j
          /\ out[i].k \in {"class", "import"} /\ out[i].name = NameA
          /\ out[j] = OverrideText(ClassLevelKey(NameB))
    /\ \E i \in 1..Len(classes) : i > 1 /\ E[classes[i]].name = NameB

(* C15.  No union wiring for an overridden attribute: the subset pass      *)
(* emits no linkage statement Union.add(Class.attr) for an attribute       *)
(* whose qualified name has an override entry.                             *)
C15_NoWiringForOverridden ==
    \A i \in 1..Len(out) :
        out[i].k = "add" => MemberKey(out[i].c, out[i].a) \notin overrides.keys

\* An attribute of a listed class that the association pass writes as a
\* plain or derived association although it has no name.
UnnamedEnd(c, a) ==
    /\ a.name = None /\ HasTarget(a) /\ a.redefines = None
    /\ MemberKey(E[c].name, a.name) \notin overrides.keys

(* C16.  An unnamed attribute with a target class and no override that     *)
(* reaches the association pass as a plain or derived association aborts   *)
(* the run: no association or derived-union statement is written for an    *)
(* unnamed attribute, and no run with such an attribute completes.         *)
C16_UnnamedEndFatal ==
    /\ \A i \in 1..Len(out) :
          out[i].k \in {"association", "derivedunion"} => out[i].a # None
    /\ pc = "done" =>
          \A c \in Range(classes) :
              \A j \in 1..Len(E[c].ownedAttribute) :
                  ~ UnnamedEnd(c, E[c].ownedAttribute[j])

(* C17.  Extension ends are always skipped: no line of the output is       *)
(* written for an attribute that is an extension end, in any pass,         *)
(* whether or not its qualified name has an override entry.                *)
C17_ExtensionEndsSkipped ==
    \A i \in 1..Len(out) :
        out[i].k \in MemberKinds =>
            \A a \in AttrsNamed(KeyOf(out[i]).c, KeyOf(out[i]).m) :
                ~ is_extension_end(a)

\* The listed classes named n.
ClassesNamed(n) == { c \in Range(classes) : E[c].name = n }

(* C18.  Redefinition ordering: a redefinition statement of class C comes  *)
(* after every plain association and derived-union statement of C and      *)
(* after every association, derived-union and redefinition statement of    *)
(* every transitive base of C.                                             *)
C18_RedefinitionsLast ==
    \A i, j \in 1..Len(out) :
        (out[i].k = "redefine" /\ out[j].k \in StatementKinds) =>
            /\ (out[j].c = out[i].c /\ out[j].k # "redefine") => j < i
            /\ (\E c \in ClassesNamed(out[i].c) :
                   \E b \in Ancestors(c) : E[b].name = out[j].c) => j < i

\* B redefines u of its base A: B.y (redefine) is stored before B.x, and
\* is written after B.x and after A.u.
C18_Witness ==
    /\ pc = "done"
    /\ \E i, j, k \in 1..Len(out) :
          /\ out[i].k = "redefine" /\ out[i].c = NameB /\ out[i].a = "y"
          /\ out[j].k = "association" /\ out[j].c = NameB /\ out[j].a = "x"
          /\ out[k].k = "derivedunion" /\ out[k].c = NameA
          /\ k < j /\ j < i

-----------------------------------------------------------------------------
(* The search of attribute() as a list of the classes it looks at. *)

\* The supermodel class that stands for c: "class", "none", or "error"
\* when the language does not know the class found.
StandIn(c) ==
    LET Q == Qualifying(E[c].name)
    IN IF Q = {} THEN [kind |-> "none"]
       ELSE IF E[c].name \notin super_models[FirstPlace(Q)[1]].known
       THEN [kind |-> "error"]
       ELSE [kind |-> "class",
             cls |-> super_models[FirstPlace(Q)[1]].ids[FirstPlace(Q)[2]],
             lang |-> super_models[FirstPlace(Q)[1]].lang]

\* The classes looked at from c on, in order: c, its bases depth first,
\* then the stand-in of c; ref is the implementation reference in force.
RECURSIVE SearchPath(_, _)
RECURSIVE SearchBases(_, _)
SearchBases(bs, ref) ==
    IF bs = << >> THEN << >>
    ELSE SearchPath(Head(bs), ref) \o SearchBases(Tail(bs), ref)

SearchPath(c, ref) ==
    << [kind |-> "class", cls |-> c, ref |-> ref] >>
    \o SearchBases(bases(E, c), ref)
    \o (IF StandIn(c).kind = "error" THEN << [kind |-> "error"] >>
        ELSE IF StandIn(c).kind = "class" /\ StandIn(c).cls # c
        THEN SearchPath(StandIn(c).cls,
                        IF ref = None THEN StandIn(c).lang ELSE ref)
        ELSE << >>)

Owns(c, n) == \E i \in 1..Len(E[c].ownedAttribute) : E[c].ownedAttribute[i].name = n

\* The first class of the path that owns an attribute named n, unless the
\* search raises before.
RECURSIVE FirstMatch(_, _)
FirstMatch(path, n) ==
    IF path = << >> THEN [kind |-> "none"]
    ELSE IF Head(path).kind = "error" THEN Head(path)
    ELSE IF Owns(Head(path).cls, n) THEN Head(path)
    ELSE FirstMatch(Tail(path), n)

SuperIds == UNION { Range(super_models[m].ids) : m \in 1..Len(super_models) }

SearchedNames == {"u", "v", "w", "x"}

ImportPlaces(l) == { i \in 1..Len(out) : out[i] = l }

\* The import lines that subsets(c, super_models) yields for the classes
\* of the run.
SubsetImports ==
    { l \in UNION { Range(subsets(E, super_models, classes[i]).lines)
                    : i \in 1..Len(classes) } :
        l.k = "import" }

(* C22.  In a model whose class names are unique, over one whole run of    *)
(* coder() every import line is written at most once, whether the first    *)
(* pass wrote it in place of a class statement or the third pass for the   *)
(* owner of a derived union.                                               *)
C22_ImportsOnce ==
    UniqueNames =>
        \A i, j \in 1..Len(out) :
            (out[i].k = "import" /\ out[i] = out[j]) => i = j

\* A finished run in which the subset pass came upon the import line of a
\* class that the first pass had imported, and upon one that it had not.
C22_Witness ==
    /\ pc = "done"
    /\ UniqueNames
    /\ \E l \in SubsetImports :
          /\ Cardinality(ImportPlaces(l)) = 1
          /\ \E c \in Range(classes) : Imported(c) /\ E[c].name = l.name
    /\ \E l \in SubsetImports :
          /\ Cardinality(ImportPlaces(l)) = 1
          /\ ~ \E c \in Range(classes) : Imported(c) /\ E[c].name = l.name

====
